---------------------------- MODULE Spec2Model ----------------------------
(***************************************************************************)
(* A model of src/app.py, the retrieval-augmented chat backend.            *)
(*                                                                         *)
(* Strings are sequences of one-character strings, so that slicing,        *)
(* concatenation, len() and substring containment are computed and not     *)
(* assumed.  The three SQLite tables are sequences of rows in rowid order. *)
(* The created_at columns are not modelled: no statement of the code reads *)
(* them.  id columns are INTEGER PRIMARY KEY AUTOINCREMENT and the code    *)
(* never deletes a row nor supplies an id, so the id of a new row is one   *)
(* more than the largest id of the table.                                  *)
(***************************************************************************)
EXTENDS Integers, Sequences, FiniteSets, TLC

VARIABLES
    policy,         \* POLICY_FILE on disk: [exists, text]
    apiKey,         \* whether OPENAI_API_KEY is set in the environment
    docs,           \* rows of table docs: [id, title, chunk]
    conversations,  \* rows of table conversations: [id]
    messages,       \* rows of table messages: [id, conversation_id, role, content]
    startup,        \* startup[s]: a process running startup_event
    request         \* request[p]: a POST /v1/chat/answer call in flight

vars == <<policy, apiKey, docs, conversations, messages, startup, request>>

---------------------------------------------------------------------------
(* Bounds of the model *)

\* processes that run startup_event against the same database file
MaxStartups == 2
\* chat requests that may be in flight together
MaxRequests == 2
\* a policy text is made of at most this many runs of one character
MaxSegs == 3

Startups == 1..MaxStartups
Requests == 1..MaxRequests

---------------------------------------------------------------------------
(* Strings *)

Min(a, b) == IF a <= b THEN a ELSE b

\* Python s[i:j] for 0 <= i <= j (0-based, j exclusive, clipped to len(s))
Slice(s, i, j) == SubSeq(s, i + 1, Min(j, Len(s)))

\* n copies of character c
Rep(c, n) == [i \in 1..n |-> c]

\* characters str.strip() removes, among those the model's texts use
Whitespace == {" ", "\n", "\t"}

\* how many characters of s come before its first character that is not
\* whitespace (Len(s) when there is none), counting from the left
LeadingWhitespace(s) ==
    LET N == {k \in 0..(Len(s) - 1) : s[k + 1] \notin Whitespace}
    IN  IF N = {} THEN Len(s) ELSE CHOOSE k \in N : \A m \in N : k <= m

\* the same, counting from the right
TrailingWhitespace(s) ==
    LET N == {k \in 0..(Len(s) - 1) : s[Len(s) - k] \notin Whitespace}
    IN  IF N = {} THEN Len(s) ELSE CHOOSE k \in N : \A m \in N : k <= m

\* str.lstrip() and str.rstrip()
LStrip(s) == SubSeq(s, LeadingWhitespace(s) + 1, Len(s))

RStrip(s) == SubSeq(s, 1, Len(s) - TrailingWhitespace(s))

\* str.strip()
Strip(s) == RStrip(LStrip(s))

\* needle in hay (Python's substring test, case-sensitive)
Contains(hay, needle) ==
    \E i \in 0..(Len(hay) - Len(needle)) :
        \A j \in 1..Len(needle) : hay[i + j] = needle[j]

---------------------------------------------------------------------------
(* String literals of the code, character by character *)

\* "policy", the title of every seeded row (line 84)
TitlePolicy ==
    <<"p","o","l","i","c","y">>

\* the prompt without documents, up to the question (line 183)
PromptPlain ==
    <<"A","n","s","w","e","r"," ","t","h","e"," ","u","s","e","r","'","s",
      " ","q","u","e","s","t","i","o","n"," ","c","l","e","a","r","l","y",
      ".","\n","\n","Q","u","e","s","t","i","o","n",":"," ">>

\* line 191
PromptHead ==
    <<"Y","o","u"," ","a","r","e"," ","a"," ","h","e","l","p","f","u","l",
      " ","a","s","s","i","s","t","a","n","t","."," ","U","s","e"," ","t",
      "h","e"," ","f","o","l","l","o","w","i","n","g"," ","c","o","n","t",
      "e","x","t"," ","d","o","c","u","m","e","n","t","s"," ","w","h","e",
      "n"," ","t","h","e","y"," ","a","r","e"," ","r","e","l","e","v","a",
      "n","t",".","\n","\n">>

\* line 193
PromptQuestion ==
    <<"Q","u","e","s","t","i","o","n",":"," ">>

\* line 194
PromptTail ==
    <<"A","n","s","w","e","r"," ","b","a","s","e","d"," ","o","n"," ","t",
      "h","e"," ","c","o","n","t","e","x","t"," ","w","h","e","n"," ","p",
      "o","s","s","i","b","l","e","."," ","I","f"," ","t","h","e"," ","c",
      "o","n","t","e","x","t"," ","i","s"," ","n","o","t"," ","r","e","l",
      "e","v","a","n","t",","," ","a","n","s","w","e","r"," ","f","r","o",
      "m"," ","y","o","u","r"," ","o","w","n"," ","k","n","o","w","l","e",
      "d","g","e",".">>

\* line 187
LabelOpen ==
    <<"[","D","o","c","u","m","e","n","t"," ">>

\* line 187
LabelClose ==
    <<"]"," ">>

\* the separator "\n\n" (lines 188, 192, 193)
Blank ==
    <<"\n","\n">>

\* line 246
Ellipsis ==
    <<".",".",".">>

---------------------------------------------------------------------------
(* Tables *)

Ids(table) == {table[i].id : i \in 1..Len(table)}

MaxOf(S) == CHOOSE m \in S : \A x \in S : x <= m

\* NextId gone wrong: the largest id in use is handed out again
NextIdReuse(table) == IF table = << >> THEN 1 ELSE MaxOf(Ids(table))

\* what AUTOINCREMENT assigns to the next row (cursor.lastrowid after INSERT)
NextId(table) == IF table = << >> THEN 1 ELSE MaxOf(Ids(table)) + 1

---------------------------------------------------------------------------
(* Document seeding: load_policy_into_docs *)

chunk_size == 400

\* [text[i : i + chunk_size] for i in range(i0, len(text), chunk_size)
\*  if text[i : i + chunk_size].strip()]
RECURSIVE ChunksFrom(_, _)
ChunksFrom(text, i) ==
    IF i >= Len(text) THEN << >>
    ELSE LET w == Slice(text, i, i + chunk_size)
         IN  (IF Strip(w) # << >> THEN <<w>> ELSE << >>)
                 \o ChunksFrom(text, i + chunk_size)

\* PolicyChunks gone wrong: the windows are not tested with strip()
RECURSIVE ChunksKeepingBlank(_, _)
ChunksKeepingBlank(text, i) ==
    IF i >= Len(text) THEN << >>
    ELSE <<Slice(text, i, i + chunk_size)>> \o ChunksKeepingBlank(text, i + chunk_size)

PolicyChunksKeepingBlank(text) == ChunksKeepingBlank(text, 0)

PolicyChunks(text) == ChunksFrom(text, 0)

\* the INSERT loop: one row per chunk, title "policy", ids in sequence
RECURSIVE InsertDocs(_, _)
InsertDocs(table, chunks) ==
    IF chunks = << >> THEN table
    ELSE InsertDocs(
            Append(table, [id |-> NextId(table), title |-> TitlePolicy,
                           chunk |-> Head(chunks)]),
            Tail(chunks))

\* lines 61-72 (after init_db): return at once when the file is missing or
\* the docs table already has rows; otherwise go on to read and insert.
LoadCheck(s) ==
    /\ startup[s].pc = "start"
    /\ startup' = [startup EXCEPT ![s].pc =
                      IF ~policy.exists THEN "done"
                      ELSE IF Len(docs) > 0 THEN "done"
                      ELSE "seed"]
    /\ UNCHANGED <<policy, apiKey, docs, conversations, messages, request>>

\* lines 74-88: read the file, cut it, insert the chunks, commit.  open()
\* raises when the file has gone since the check.
LoadSeed(s) ==
    /\ startup[s].pc = "seed"
    /\ IF policy.exists
       THEN /\ docs' = InsertDocs(docs, PolicyChunks(policy.text))
            /\ startup' = [startup EXCEPT ![s].pc = "done",
                                          ![s].inserted = Len(docs') - Len(docs)]
       ELSE /\ docs' = docs
            /\ startup' = [startup EXCEPT ![s].pc = "failed"]
    /\ UNCHANGED <<policy, apiKey, conversations, messages, request>>

\* the environment rewrites or removes the policy file
WritePolicy(t) ==
    /\ policy # [exists |-> TRUE, text |-> t]
    /\ policy' = [exists |-> TRUE, text |-> t]
    /\ UNCHANGED <<apiKey, docs, conversations, messages, startup, request>>

RemovePolicy ==
    /\ policy.exists
    /\ policy' = [exists |-> FALSE, text |-> << >>]
    /\ UNCHANGED <<apiKey, docs, conversations, messages, startup, request>>

---------------------------------------------------------------------------
(* Conversation and message store *)

\* Optional[int]: << >> is None, <<n>> is the integer n
None == << >>

\* create_conversation_if_needed gone wrong: the supplied identifier is
\* ignored and a row is always inserted
create_conversation_always(table, conversation_id) ==
    LET new_id == NextId(table)
    IN  [table |-> Append(table, [id |-> new_id]), id |-> new_id]

\* lines 132-146.  "if conversation_id:" is Python truthiness: None and 0
\* both fall through to the INSERT.  Returns the table and the identifier.
create_conversation_if_needed(table, conversation_id) ==
    IF conversation_id # None /\ conversation_id[1] # 0
    THEN [table |-> table, id |-> conversation_id[1]]
    ELSE LET new_id == NextId(table)
         IN  [table |-> Append(table, [id |-> new_id]), id |-> new_id]

\* lines 149-160: one INSERT, no check of conversation_id or role
save_message(table, conversation_id, role, content) ==
    LET message_id == NextId(table)
    IN  [table |-> Append(table, [id |-> message_id,
                                  conversation_id |-> conversation_id,
                                  role |-> role,
                                  content |-> content]),
         id |-> message_id]

---------------------------------------------------------------------------
(* Retrieval: retrieve_docs *)

\* SQLite's LIKE folds the 26 ASCII upper-case letters and nothing else
Lower ==
    [A |-> "a", B |-> "b", C |-> "c", D |-> "d", E |-> "e", F |-> "f",
     G |-> "g", H |-> "h", I |-> "i", J |-> "j", K |-> "k", L |-> "l",
     M |-> "m", N |-> "n", O |-> "o", P |-> "p", Q |-> "q", R |-> "r",
     S |-> "s", T |-> "t", U |-> "u", V |-> "v", W |-> "w", X |-> "x",
     Y |-> "y", Z |-> "z"]

Fold(c) == IF c \in DOMAIN Lower THEN Lower[c] ELSE c

\* Like gone wrong: letters are compared as they are, without folding case
RECURSIVE LikeCaseSensitive(_, _, _, _)
LikeCaseSensitive(p, i, s, j) ==
    IF i > Len(p) THEN j > Len(s)
    ELSE IF p[i] = "%"
         THEN \E j2 \in j..(Len(s) + 1) : LikeCaseSensitive(p, i + 1, s, j2)
    ELSE IF j > Len(s) THEN FALSE
    ELSE IF p[i] = "_" THEN LikeCaseSensitive(p, i + 1, s, j + 1)
    ELSE p[i] = s[j] /\ LikeCaseSensitive(p, i + 1, s, j + 1)

\* SQLite's LIKE without ESCAPE: pattern p from position i against string s
\* from position j, by backtracking over what each "%" swallows.  "%" stands
\* for any run of characters, "_" for any one character, any other character
\* for itself up to ASCII case.
RECURSIVE Like(_, _, _, _)
Like(p, i, s, j) ==
    IF i > Len(p) THEN j > Len(s)
    ELSE IF p[i] = "%" THEN \E j2 \in j..(Len(s) + 1) : Like(p, i + 1, s, j2)
    ELSE IF j > Len(s) THEN FALSE
    ELSE IF p[i] = "_" THEN Like(p, i + 1, s, j + 1)
    ELSE Fold(p[i]) = Fold(s[j]) /\ Like(p, i + 1, s, j + 1)

\* the WHERE clause of line 171 on one row
RowMatches(row, pattern) ==
    Like(pattern, 1, row.chunk, 1) \/ Like(pattern, 1, row.title, 1)

\* the table scan in rowid order, stopping once LIMIT rows are out; a
\* negative LIMIT is no limit in SQLite
RECURSIVE ScanDocs(_, _, _, _, _)
ScanDocs(table, i, pattern, limit, out) ==
    IF i > Len(table) \/ (limit >= 0 /\ Len(out) >= limit) THEN out
    ELSE ScanDocs(table, i + 1, pattern, limit,
                  IF RowMatches(table[i], pattern) THEN Append(out, table[i])
                  ELSE out)

\* lines 163-178
retrieve_docs(table, question, top_k) ==
    LET pattern == <<"%">> \o question \o <<"%">>
    IN  ScanDocs(table, 1, pattern, top_k, << >>)

---------------------------------------------------------------------------
(* Prompt: build_prompt *)

Digits == <<"0", "1", "2", "3", "4", "5", "6", "7", "8", "9">>

\* str(n) for n >= 0, as the f-string formats the document number
RECURSIVE Decimal(_)
Decimal(n) ==
    IF n < 10 THEN <<Digits[n + 1]>>
    ELSE Decimal(n \div 10) \o <<Digits[(n % 10) + 1]>>

\* ContextText gone wrong: enumerate() without start=1
RECURSIVE ContextTextFromZero(_, _)
ContextTextFromZero(rows, i) ==
    IF i > Len(rows) THEN << >>
    ELSE (IF i > 1 THEN Blank ELSE << >>)
            \o LabelOpen \o Decimal(i - 1) \o LabelClose \o rows[i].chunk
            \o ContextTextFromZero(rows, i + 1)

\* lines 185-188: "[Document i] chunk" for i = first.., joined by "\n\n"
RECURSIVE ContextText(_, _)
ContextText(rows, i) ==
    IF i > Len(rows) THEN << >>
    ELSE (IF i > 1 THEN Blank ELSE << >>)
            \o LabelOpen \o Decimal(i) \o LabelClose \o rows[i].chunk
            \o ContextText(rows, i + 1)

\* lines 181-196
build_prompt(question, rows) ==
    IF rows = << >> THEN PromptPlain \o question
    ELSE PromptHead \o ContextText(rows, 1) \o Blank
            \o PromptQuestion \o question \o Blank \o PromptTail

---------------------------------------------------------------------------
(* Citations: lines 242-253 *)

\* Snippet gone wrong: a chunk of exactly 200 characters is cut as well
SnippetFrom200(chunk) ==
    IF Len(chunk) >= 200 THEN Slice(chunk, 0, 200) \o Ellipsis ELSE chunk

Snippet(chunk) ==
    IF Len(chunk) > 200 THEN Slice(chunk, 0, 200) \o Ellipsis ELSE chunk

Citations(rows) ==
    [i \in 1..Len(rows) |->
        [doc_id |-> rows[i].id, title |-> rows[i].title,
         snippet |-> Snippet(rows[i].chunk)]]

---------------------------------------------------------------------------
(* POST /v1/chat/answer: chat_answer, one action per step that touches the *)
(* database or the provider.  Each save_message and the conversation       *)
(* INSERT commits on a connection of its own, so requests interleave       *)
(* between them.                                                           *)

\* A request: the fields of ChatRequest (req_*, question, use_retrieval,
\* top_k), the locals of chat_answer, and four history fields the code does
\* not keep: calls (provider calls made), created (conversation ids this
\* request inserted), wrote (message ids it inserted, in order) and existed
\* (whether the supplied conversation_id named a row when the request came).
NoRequest ==
    [pc |-> "idle", req_conversation_id |-> None, question |-> << >>,
     use_retrieval |-> TRUE, top_k |-> 3,
     conversation_id |-> 0, user_message_id |-> 0, retrieved_rows |-> << >>,
     prompt |-> << >>, answer |-> << >>, assistant_message_id |-> 0,
     response |-> << >>,
     calls |-> 0, created |-> {}, wrote |-> << >>, existed |-> FALSE]

\* the body passed validation (lines 91-96) and chat_answer is entered
Receive(p, cid, q, ur, k) ==
    /\ request[p].pc = "idle"
    /\ request' = [request EXCEPT ![p] =
          [NoRequest EXCEPT !.pc = "create", !.req_conversation_id = cid,
                            !.question = q, !.use_retrieval = ur, !.top_k = k,
                            !.existed = (cid # None /\ cid[1] \in Ids(conversations))]]
    /\ UNCHANGED <<policy, apiKey, docs, conversations, messages, startup>>

\* line 220
CreateConversation(p) ==
    /\ request[p].pc = "create"
    /\ LET r == create_conversation_if_needed(conversations,
                                              request[p].req_conversation_id)
       IN  /\ conversations' = r.table
           /\ request' = [request EXCEPT
                 ![p].pc = "save_user",
                 ![p].conversation_id = r.id,
                 ![p].created = Ids(r.table) \ Ids(conversations)]
    /\ UNCHANGED <<policy, apiKey, docs, messages, startup>>

\* line 222
SaveUser(p) ==
    /\ request[p].pc = "save_user"
    /\ LET r == save_message(messages, request[p].conversation_id,
                             "user", request[p].question)
       IN  /\ messages' = r.table
           /\ request' = [request EXCEPT
                 ![p].pc = "retrieve",
                 ![p].user_message_id = r.id,
                 ![p].wrote = Append(@, r.id)]
    /\ UNCHANGED <<policy, apiKey, docs, conversations, startup>>

\* lines 224-228
Retrieve(p) ==
    /\ request[p].pc = "retrieve"
    /\ LET rows == IF request[p].use_retrieval
                   THEN retrieve_docs(docs, request[p].question, request[p].top_k)
                   ELSE << >>
       IN  request' = [request EXCEPT
                 ![p].pc = "call",
                 ![p].retrieved_rows = rows,
                 ![p].prompt = build_prompt(request[p].question, rows)]
    /\ UNCHANGED <<policy, apiKey, docs, conversations, messages, startup>>

\* what the provider may answer
Answers == {<<"o", "k">>}

\* CallProvider gone wrong: a failed call is tried once more
CallProviderRetry(p) ==
    /\ request[p].pc = "call"
    /\ apiKey
    /\ \/ \E a \in Answers :
             request' = [request EXCEPT ![p].pc = "save_assistant",
                                        ![p].calls = @ + 1,
                                        ![p].answer = a]
       \/ request' = [request EXCEPT
             ![p].pc = IF request[p].calls >= 1 THEN "failed" ELSE "call",
             ![p].calls = @ + 1]
    /\ UNCHANGED <<policy, apiKey, docs, conversations, messages, startup>>

\* lines 230-238.  get_client assigns os.getenv(...) to os.environ[...],
\* which raises when the variable is unset; otherwise the provider is called
\* once and either answers or raises.  Nothing catches either exception.
CallProvider(p) ==
    /\ request[p].pc = "call"
    /\ \/ /\ ~apiKey
          /\ request' = [request EXCEPT ![p].pc = "failed"]
       \/ /\ apiKey
          /\ \E a \in Answers :
                request' = [request EXCEPT ![p].pc = "save_assistant",
                                           ![p].calls = @ + 1,
                                           ![p].answer = a]
       \/ /\ apiKey
          /\ request' = [request EXCEPT ![p].pc = "failed",
                                        ![p].calls = @ + 1]
    /\ UNCHANGED <<policy, apiKey, docs, conversations, messages, startup>>

\* lines 240-260
SaveAssistant(p) ==
    /\ request[p].pc = "save_assistant"
    /\ LET r == save_message(messages, request[p].conversation_id,
                             "assistant", request[p].answer)
       IN  /\ messages' = r.table
           /\ request' = [request EXCEPT
                 ![p].pc = "done",
                 ![p].assistant_message_id = r.id,
                 ![p].wrote = Append(@, r.id),
                 ![p].response =
                    <<[conversation_id |-> request[p].conversation_id,
                       message_id |-> r.id,
                       answer |-> request[p].answer,
                       citations |-> Citations(request[p].retrieved_rows)]>>]
    /\ UNCHANGED <<policy, apiKey, docs, conversations, startup>>

\* the steps of request p
Step(p) ==
    \/ CreateConversation(p)
    \/ SaveUser(p)
    \/ Retrieve(p)
    \/ CallProvider(p)
    \/ SaveAssistant(p)

---------------------------------------------------------------------------
(* Policy texts the specifications start from *)

SeedChars == {"x", " ", "\n"}
SegLens == {1, 50, 400}
Segs == {Rep(c, n) : c \in SeedChars, n \in SegLens}

RECURSIVE TextsOf(_)
TextsOf(k) ==
    IF k = 0 THEN {<< >>}
    ELSE LET T == TextsOf(k - 1)
         IN  T \cup {t \o g : t \in T, g \in Segs}

StartupInit == [s \in Startups |-> [pc |-> "start", inserted |-> 0]]

\* a fresh database, and a policy file of any of the texts
InitSeed ==
    /\ policy \in {[exists |-> TRUE, text |-> t] : t \in TextsOf(MaxSegs)}
                    \cup {[exists |-> FALSE, text |-> << >>]}
    /\ apiKey = TRUE
    /\ docs = << >>
    /\ conversations = << >>
    /\ messages = << >>
    /\ startup = StartupInit
    /\ request = [p \in Requests |-> NoRequest]

NextSeed ==
    \E s \in Startups : LoadCheck(s) \/ LoadSeed(s)

SpecSeed == InitSeed /\ [][NextSeed]_vars

\* a fresh database and a short policy file that the environment may rewrite
InitStartup ==
    /\ policy \in {[exists |-> TRUE, text |-> t] : t \in TextsOf(1)}
                    \cup {[exists |-> FALSE, text |-> << >>]}
    /\ apiKey = TRUE
    /\ docs = << >>
    /\ conversations = << >>
    /\ messages = << >>
    /\ startup = StartupInit
    /\ request = [p \in Requests |-> NoRequest]

NextStartup ==
    \/ \E s \in Startups : LoadCheck(s)
    \/ \E s \in Startups : LoadSeed(s)
    \/ \E t \in TextsOf(1) : WritePolicy(t)
    \/ RemovePolicy

SpecStartup == InitStartup /\ [][NextStartup]_vars

---------------------------------------------------------------------------
(* The chat service after a startup that seeded a short policy file *)

ShortPolicy == <<"a", "b">>

\* request bodies (use_retrieval and top_k at their defaults): no
\* conversation_id, conversation_id 0, and an identifier that may or may not
\* name a row by the time it is used, under two different questions
ChatBodies ==
    {[conversation_id |-> None,  question |-> <<"a">>],
     [conversation_id |-> <<0>>, question |-> <<"z">>],
     [conversation_id |-> <<1>>, question |-> <<"a">>],
     [conversation_id |-> <<1>>, question |-> <<"z">>]}

StartupDone(rows) ==
    [s \in Startups |-> [pc |-> "done", inserted |-> IF s = 1 THEN Len(rows) ELSE 0]]

Init ==
    /\ policy = [exists |-> TRUE, text |-> ShortPolicy]
    /\ apiKey \in BOOLEAN
    /\ docs = InsertDocs(<< >>, PolicyChunks(ShortPolicy))
    /\ conversations = << >>
    /\ messages = << >>
    /\ startup = StartupDone(docs)
    /\ request = [p \in Requests |-> NoRequest]

\* Request slots are interchangeable, so they are taken in order.
Next ==
    \/ \E p \in Requests :
          /\ \A o \in 1..(p - 1) : request[o].pc # "idle"
          /\ \E b \in ChatBodies :
                Receive(p, b.conversation_id, b.question, TRUE, 3)
    \/ \E p \in Requests : Step(p)

Spec == Init /\ [][Next]_vars

---------------------------------------------------------------------------
(* Properties of the conversation and message store, under Spec *)

RowsWithId(table, id) == {table[i] : i \in {j \in 1..Len(table) : table[j].id = id}}

PositionsOf(table, id) == {j \in 1..Len(table) : table[j].id = id}

\* C1: a completed request that supplied the conversation_id of a
\* conversation that existed when it came returns that identifier and has
\* appended exactly two messages to that conversation, whatever other requests
\* did in between: first the user message holding its question, then the
\* assistant message holding the provider's answer, the user message with the
\* smaller id; the response's message_id is the assistant message's id.
C1_ExistingConversation ==
    \A p \in Requests :
        (request[p].pc = "done" /\ request[p].existed) =>
            LET r == request[p]
                n == r.req_conversation_id[1]
            IN  /\ r.response[1].conversation_id = n
                /\ Len(r.wrote) = 2
                /\ r.wrote[1] < r.wrote[2]
                /\ RowsWithId(messages, r.wrote[1]) =
                      {[id |-> r.wrote[1], conversation_id |-> n,
                        role |-> "user", content |-> r.question]}
                /\ RowsWithId(messages, r.wrote[2]) =
                      {[id |-> r.wrote[2], conversation_id |-> n,
                        role |-> "assistant", content |-> r.answer]}
                /\ \A i \in PositionsOf(messages, r.wrote[1]) :
                      \A j \in PositionsOf(messages, r.wrote[2]) : i < j
                /\ r.response[1].message_id = r.wrote[2]
                /\ r.response[1].answer = r.answer

\* C1 witness: such a request has completed with another request's message
\* stored between its two messages.
C1_Witness ==
    \E p \in Requests :
        /\ request[p].pc = "done"
        /\ request[p].existed
        /\ request[p].wrote[2] > request[p].wrote[1] + 1

\* C2 as stated: when a request that supplied no conversation_id completes,
\* the identifier it returns differs from the identifier returned by every
\* request completed before it.
C2_DistinctFromAllReturned ==
    [][\A p \in Requests :
          (request[p].pc # "done" /\ request'[p].pc = "done"
             /\ request[p].req_conversation_id = None) =>
                \A o \in Requests :
                    request[o].pc = "done" =>
                        request[o].response[1].conversation_id
                            # request'[p].response[1].conversation_id]_vars

\* C2 amended: a completed request that supplied no conversation_id created
\* exactly one conversation row, returns the id of that row, no other row has
\* that id, and it differs from the identifier returned by every other
\* completed request whose conversation the store created.
C2_DistinctFromAllIssued ==
    \A p \in Requests :
        (request[p].pc = "done" /\ request[p].req_conversation_id = None) =>
            LET rid == request[p].response[1].conversation_id
            IN  /\ request[p].created = {rid}
                /\ Cardinality(PositionsOf(conversations, rid)) = 1
                /\ \A o \in Requests \ {p} :
                      /\ request[o].created \cap {rid} = {}
                      /\ (request[o].pc = "done" /\ request[o].created # {}) =>
                            request[o].response[1].conversation_id # rid

\* C2 witness: two requests without conversation_id have completed.
C2_Witness ==
    \E p \in Requests, o \in Requests :
        /\ p # o
        /\ request[p].pc = "done" /\ request[p].req_conversation_id = None
        /\ request[o].pc = "done" /\ request[o].req_conversation_id = None

\* C3 as stated: create_conversation_if_needed, given any integer, returns it
\* and leaves the conversations table as it was.
C3_SuppliedIdReturnedUnchanged ==
    [][\A p \in Requests :
          (request[p].pc = "create" /\ request'[p].pc = "save_user"
             /\ request[p].req_conversation_id # None) =>
                /\ request'[p].conversation_id = request[p].req_conversation_id[1]
                /\ conversations' = conversations]_vars

\* C4 as stated: every message row references a conversation row that is in
\* the table (rows are never deleted, so one created before or with it).
C4_MessagesReferenceConversations ==
    \A i \in 1..Len(messages) :
        messages[i].conversation_id \in Ids(conversations)

\* C7: a request that failed at the provider call (or for want of the
\* credential) has no response, called the provider at most once, and wrote
\* nothing but its user message and the conversation row it may have
\* created; no request calls the provider twice, and every row of the two
\* tables is accounted for by exactly one request.
C7_ProviderFailure ==
    /\ \A p \in Requests :
          /\ request[p].calls <= 1
          /\ request[p].pc = "failed" =>
                LET r == request[p]
                IN  /\ r.response = << >>
                    /\ (~apiKey => r.calls = 0)
                    /\ r.wrote = <<r.user_message_id>>
                    /\ \A m \in RowsWithId(messages, r.user_message_id) :
                          m.role = "user"
                    /\ r.created \subseteq {r.conversation_id}
                    /\ (r.req_conversation_id # None /\ r.req_conversation_id[1] # 0)
                          => r.created = {}
    /\ \A i \in 1..Len(messages) :
          Cardinality({<<p, k>> \in Requests \X {1, 2} :
                          k <= Len(request[p].wrote)
                          /\ request[p].wrote[k] = messages[i].id}) = 1
    /\ \A i \in 1..Len(conversations) :
          Cardinality({p \in Requests : conversations[i].id \in request[p].created}) = 1

\* C7 witness: a request failed after one provider call, having created its
\* conversation.
C7_Witness ==
    \E p \in Requests :
        /\ request[p].pc = "failed"
        /\ request[p].calls = 1
        /\ request[p].created # {}

---------------------------------------------------------------------------
(* One chat request against the docs table seeded from a longer policy     *)
(* file: retrieval, prompt and citations                                   *)

\* a word followed by filler up to one window of chunk_size characters
Pad(w) == w \o Rep(".", chunk_size - Len(w))

\* policy files: five windows that all hold "ab", the last of exactly 200
\* characters; six windows of which one is blank, that hold "ab" in
\* different spellings, the last of 201 characters; a two-character file;
\* an empty file
RetrievalTexts ==
    {Pad(<<"a","b">>) \o Pad(<<"a","b">>) \o Pad(<<"a","b">>) \o Pad(<<"a","b">>)
        \o <<"a","b">> \o Rep(".", 198),
     Pad(<<"a","b">>) \o Pad(<<"A","b">>) \o Rep(" ", chunk_size) \o Pad(<<"b">>)
        \o Pad(<<"a",".","b">>) \o <<"x","a","b">> \o Rep(".", 198),
     <<"a","b">>,
     << >>}

RetrievalQuestions ==
    {<< >>, <<"a","b">>, <<"A","B">>, <<"a","_","b">>, <<"z">>,
     <<"P","O","L","I","C","Y">>, <<"D","o","c","u","m","e","n","t">>}

TopKs == {-1, 0, 1, 2, 3, 6}

InitRetrieve ==
    /\ policy \in {[exists |-> TRUE, text |-> t] : t \in RetrievalTexts}
    /\ apiKey \in BOOLEAN
    /\ docs = InsertDocs(<< >>, PolicyChunks(policy.text))
    /\ conversations = << >>
    /\ messages = << >>
    /\ startup = StartupDone(docs)
    /\ request = [p \in Requests |-> NoRequest]

NextRetrieve ==
    \/ \E q \in RetrievalQuestions, ur \in BOOLEAN, k \in TopKs :
          Receive(1, None, q, ur, k)
    \/ Step(1)

SpecRetrieve == InitRetrieve /\ [][NextRetrieve]_vars

---------------------------------------------------------------------------
(* Properties of retrieval, prompt and citations, under SpecRetrieve *)

\* the request has run retrieve_docs and build_prompt
Retrieved(p) == request[p].pc \in {"call", "save_assistant", "done", "failed"}

\* the n-th smallest element of a set of numbers
NthOf(S, n) == CHOOSE x \in S : Cardinality({y \in S : y <= x}) = n

\* rows is the first min(top_k, |M|) rows of table among those at the
\* positions M, in table order
FirstOfMatching(rows, table, M, top_k) ==
    /\ Len(rows) = Min(top_k, Cardinality(M))
    /\ \A n \in 1..Len(rows) : rows[n] = table[NthOf(M, n)]

\* C5 as stated: for top_k >= 0 the result is the first min(top_k, m) rows, in
\* id order, of the m rows whose chunk or title contains the query as a
\* case-sensitive literal substring.
C5_CaseSensitiveSubstring ==
    \A p \in Requests :
        (Retrieved(p) /\ request[p].use_retrieval /\ request[p].top_k >= 0) =>
            LET q == request[p].question
                M == {i \in 1..Len(docs) :
                        Contains(docs[i].chunk, q) \/ Contains(docs[i].title, q)}
            IN  FirstOfMatching(request[p].retrieved_rows, docs, M, request[p].top_k)

UpperLetters ==
    <<"A","B","C","D","E","F","G","H","I","J","K","L","M",
      "N","O","P","Q","R","S","T","U","V","W","X","Y","Z">>
LowerLetters ==
    <<"a","b","c","d","e","f","g","h","i","j","k","l","m",
      "n","o","p","q","r","s","t","u","v","w","x","y","z">>

\* the same character, or the two cases of one ASCII letter
SameNoCase(a, b) ==
    a = b \/ \E k \in 1..26 : {a, b} = {UpperLetters[k], LowerLetters[k]}

\* LIKE as a statement about prefixes: the lengths of the prefixes of s that
\* the first i characters of the pattern can stand for
RECURSIVE PrefixesMatched(_, _, _)
PrefixesMatched(p, i, s) ==
    IF i = 0 THEN {0}
    ELSE LET R == PrefixesMatched(p, i - 1, s)
         IN  IF p[i] = "%" THEN {j \in 0..Len(s) : \E r \in R : r <= j}
             ELSE IF p[i] = "_" THEN {r + 1 : r \in {x \in R : x < Len(s)}}
             ELSE {r + 1 : r \in {x \in R : x < Len(s) /\ SameNoCase(s[x + 1], p[i])}}

LikeMatches(p, s) == Len(s) \in PrefixesMatched(p, Len(p), s)

\* C5 amended: the rows are those whose chunk or title matches the SQL LIKE
\* pattern %query%: the query is found up to ASCII case, and a "_" in it
\* stands for any one character, a "%" for any run of characters.
C5_LikePattern ==
    \A p \in Requests :
        (Retrieved(p) /\ request[p].use_retrieval /\ request[p].top_k >= 0) =>
            LET pat == <<"%">> \o request[p].question \o <<"%">>
                M == {i \in 1..Len(docs) :
                        LikeMatches(pat, docs[i].chunk) \/ LikeMatches(pat, docs[i].title)}
            IN  FirstOfMatching(request[p].retrieved_rows, docs, M, request[p].top_k)

\* C5 witness: top_k = 2 against five matching chunks gave the first two, and
\* the query matched only because LIKE folds case.
C5_Witness ==
    \E p \in Requests :
        /\ Retrieved(p)
        /\ request[p].use_retrieval
        /\ request[p].top_k = 2
        /\ request[p].question = <<"A","B">>
        /\ Len(docs) = 5
        /\ \A i \in 1..5 : Contains(docs[i].chunk, <<"a","b">>)
        /\ Len(request[p].retrieved_rows) = 2
        /\ request[p].retrieved_rows[1].id = 1
        /\ request[p].retrieved_rows[2].id = 2

\* C6: the response of a completed request has one citation per retrieved
\* row, in retrieval order, none when use_retrieval is false; its snippet is
\* the chunk itself when the chunk has at most 200 characters and otherwise
\* the chunk's first 200 characters followed by "...".
C6_Citations ==
    \A p \in Requests :
        request[p].pc = "done" =>
            LET rows == request[p].retrieved_rows
                cites == request[p].response[1].citations
            IN  /\ ~request[p].use_retrieval => cites = << >>
                /\ Len(cites) = Len(rows)
                /\ \A i \in 1..Len(rows) :
                      /\ cites[i].doc_id = rows[i].id
                      /\ cites[i].title = rows[i].title
                      /\ Len(rows[i].chunk) <= 200 => cites[i].snippet = rows[i].chunk
                      /\ Len(rows[i].chunk) > 200 =>
                            /\ Len(cites[i].snippet) = 203
                            /\ \A j \in 1..200 : cites[i].snippet[j] = rows[i].chunk[j]
                            /\ \A j \in 201..203 : cites[i].snippet[j] = "."

\* C6 witness: a response cites a chunk of 400 characters, cut, and one of
\* exactly 200 characters, whole.
C6_Witness ==
    \E p \in Requests :
        /\ request[p].pc = "done"
        /\ \E i, j \in 1..Len(request[p].retrieved_rows) :
              /\ Len(request[p].retrieved_rows[i].chunk) = 400
              /\ Len(request[p].response[1].citations[i].snippet) = 203
              /\ Len(request[p].retrieved_rows[j].chunk) = 200
              /\ Len(request[p].response[1].citations[j].snippet) = 200

DocumentWord == <<"D","o","c","u","m","e","n","t">>

\* the first position from `from` on at which needle occurs in hay, 0 if none
FirstOccurrence(hay, needle, from) ==
    LET S == {i \in from..(Len(hay) - Len(needle) + 1) :
                \A j \in 1..Len(needle) : hay[i + j - 1] = needle[j]}
    IN  IF S = {} THEN 0 ELSE CHOOSE i \in S : \A k \in S : i <= k

\* from position `from` on, prompt holds "[Document i] " and the i-th chunk
\* for i = first, first + 1, ... one after the other, and the question after
\* the last of them
RECURSIVE LabelledInOrder(_, _, _, _, _)
LabelledInOrder(prompt, question, rows, i, from) ==
    IF i > Len(rows) THEN FirstOccurrence(prompt, question, from) # 0
    ELSE LET needle == <<"[">> \o DocumentWord \o <<" ">> \o Decimal(i)
                          \o <<"]", " ">> \o rows[i].chunk
             at == FirstOccurrence(prompt, needle, from)
         IN  at # 0 /\ LabelledInOrder(prompt, question, rows, i + 1, at + Len(needle))

\* C8 as stated: without chunks the prompt contains the question and no
\* "Document"; with chunks it contains each chunk labelled "Document i", in
\* input order, all before the question.
C8_NoDocumentMarker ==
    \A p \in Requests :
        request[p].pc = "call" =>
            LET r == request[p]
            IN  IF r.retrieved_rows = << >>
                THEN Contains(r.prompt, r.question) /\ ~Contains(r.prompt, DocumentWord)
                ELSE LabelledInOrder(r.prompt, r.question, r.retrieved_rows, 1, 1)

\* C8 amended: without chunks the prompt contains the question, and contains
\* "Document" only if the question itself does.
C8_Prompt ==
    \A p \in Requests :
        request[p].pc = "call" =>
            LET r == request[p]
            IN  IF r.retrieved_rows = << >>
                THEN /\ Contains(r.prompt, r.question)
                     /\ Contains(r.prompt, DocumentWord) => Contains(r.question, DocumentWord)
                ELSE LabelledInOrder(r.prompt, r.question, r.retrieved_rows, 1, 1)

\* C8 witness: a prompt was built from five chunks, and one from none.
C8_Witness ==
    \E p \in Requests :
        /\ request[p].pc = "call"
        /\ Len(request[p].retrieved_rows) = 5
        /\ request[p].retrieved_rows[2].chunk # request[p].retrieved_rows[1].chunk

---------------------------------------------------------------------------
(* Properties of document seeding, under SpecStartup and SpecSeed *)

\* C9 as stated: over all startups against one database, overlapping ones
\* included, at most one startup inserts chunks; once the docs table has
\* rows no startup changes it.
C9_SeededAtMostOnce ==
    Cardinality({s \in Startups : startup[s].inserted > 0}) <= 1

\* the k-th window of 400 characters of text (k = 1, 2, ...)
Window(text, k) ==
    [j \in 1..(Min(400 * k, Len(text)) - 400 * (k - 1)) |-> text[400 * (k - 1) + j]]

\* the windows of text that hold a character other than whitespace
KeptWindows(text) ==
    {k \in 1..((Len(text) + 399) \div 400) :
        LET w == Window(text, k)
        IN  \E j \in 1..Len(w) : w[j] \notin {" ", "\n", "\t"}}

\* C10: when a startup seeds an empty docs table from the text of the policy
\* file, the table then holds, in order and under ids 1, 2, ..., exactly the
\* windows text[0:400], text[400:800], ... that are not whitespace only, each
\* titled "policy"; and every chunk ever stored has 1 to 400 characters, not
\* all of them whitespace.
C10_SeedWindows ==
    [][/\ (docs = << >> /\ \E s \in Startups :
                              startup[s].pc = "seed" /\ startup'[s].pc = "done") =>
            LET text == policy.text
                K == KeptWindows(text)
            IN  /\ Len(docs') = Cardinality(K)
                /\ \A n \in 1..Len(docs') :
                      /\ docs'[n].id = n
                      /\ docs'[n].title = <<"p","o","l","i","c","y">>
                      /\ docs'[n].chunk = Window(text, NthOf(K, n))
                /\ (Len(text) = 850 /\ \A j \in 1..850 : text[j] \notin {" ", "\n", "\t"}) =>
                      /\ Len(docs') = 3
                      /\ <<Len(docs'[1].chunk), Len(docs'[2].chunk), Len(docs'[3].chunk)>>
                            = <<400, 400, 50>>
       /\ \A n \in 1..Len(docs') :
            /\ Len(docs'[n].chunk) \in 1..400
            /\ \E j \in 1..Len(docs'[n].chunk) : docs'[n].chunk[j] \notin {" ", "\n", "\t"}
      ]_vars

\* C10 witness: a text of 850 characters, none of them whitespace, was
\* stored as chunks of 400, 400 and 50 characters.
C10_Witness ==
    /\ policy.exists
    /\ Len(policy.text) = 850
    /\ \A j \in 1..850 : policy.text[j] = "x"
    /\ Len(docs) = 3
    /\ <<Len(docs[1].chunk), Len(docs[2].chunk), Len(docs[3].chunk)>> = <<400, 400, 50>>
    /\ \E s \in Startups : startup[s].inserted = 3

===========================================================================
